---- MODULE Spec2Model ----
(***************************************************************************)
(* A model of scripts/meetups_to_rss.py: one run scrapes the listing page, *)
(* extracts one raw card per event URL, resolves each card's start time,   *)
(* keeps the cards inside the window, sorts, caps and writes the feed.     *)
(*                                                                         *)
(* Time is counted in seconds.  A datetime is a record: its civil reading, *)
(* whether it carries a zone, and that zone's offset from UTC.  The local  *)
(* zone (America/Toronto) is taken at its standard offset throughout.      *)
(*                                                                         *)
(* A text is a sequence of tokens, each a maximal run of one character     *)
(* class: a word (letters), a number (digits: value and digit count),      *)
(* whitespace, a punctuation character, a clock reading ("7:00 PM") or a   *)
(* calendar date ("2026-11-05").  The regular expressions of the script    *)
(* are evaluated on the tokens as the re module evaluates them on the      *)
(* characters.                                                             *)
(***************************************************************************)
EXTENDS Integers, Sequences, FiniteSets, TLC

----------------------------------------------------------------------------
(* Program constants *)

WINDOW_MINUTES == 60

MAX_ITEMS == 50

LOCAL_TZ == -18000

ScrollRounds == 18

StableLimit == 4

MinTitleLen == 3

SecondsPerMinute == 60

SecondsPerHour == 3600

SecondsPerDay == 86400

----------------------------------------------------------------------------
(* Tokens *)

W(s) == [k |-> "w", s |-> s, v |-> 0, d |-> 0]

N(v, d) == [k |-> "n", s |-> "", v |-> v, d |-> d]

SP == [k |-> "s", s |-> " ", v |-> 0, d |-> 0]

WS == [k |-> "s", s |-> "  ", v |-> 0, d |-> 0]

P(s) == [k |-> "p", s |-> s, v |-> 0, d |-> 0]

CLOCK(tod) == [k |-> "c", s |-> "", v |-> tod, d |-> 0]

DATE(day) == [k |-> "d", s |-> "", v |-> day, d |-> 0]

\* an ISO timestamp: its civil reading and, when it names one, its zone offset
ISO(civil, zone, off) == [k |-> "i", s |-> zone, v |-> civil, d |-> off]

\* str.lower() of a word of the vocabulary
Lower(s) ==
  CASE s = "In" -> "in"
    [] s = "IN" -> "in"
    [] s = "Minutes" -> "minutes"
    [] s = "Hours" -> "hours"
    [] s = "Starting" -> "starting"
    [] s = "Soon" -> "soon"
    [] s = "Today" -> "today"
    [] s = "Tomorrow" -> "tomorrow"
    [] s = "Next" -> "next"
    [] s = "Attendees" -> "attendees"
    [] s = "Going" -> "going"
    [] s = "RSVPs" -> "rsvps"
    [] OTHER -> s

\* the token's first and last characters are \w characters
EdgeWord(tok) == tok.k \in {"w", "n", "c", "d", "i"}

IsSpace(tok) == tok.k = "s"

\* \b before the \w token at index i
BoundaryBefore(t, i) == i = 1 \/ ~EdgeWord(t[i - 1])

\* \b after the \w token at index i
BoundaryAfter(t, i) == i = Len(t) \/ ~EdgeWord(t[i + 1])

\* the word at index i is exactly w (case-insensitively), as \bw\b matches it
IsWordAt(t, i, ws) ==
  /\ i \in 1..Len(t)
  /\ t[i].k = "w"
  /\ Lower(t[i].s) \in ws

\* index after an optional whitespace run starting at i  (\s*)
SkipSpace(t, i) == IF i \in 1..Len(t) /\ IsSpace(t[i]) THEN i + 1 ELSE i

\* re.sub(r"\s+", " ", t) and " ".join(text.split()) on a stripped text
NormalizeSpace(t) == [i \in 1..Len(t) |-> IF IsSpace(t[i]) THEN SP ELSE t[i]]

\* str.strip(): leading and trailing whitespace runs removed
RECURSIVE StripLeft(_)
StripLeft(t) == IF t # <<>> /\ IsSpace(Head(t)) THEN StripLeft(Tail(t)) ELSE t

RECURSIVE StripRight(_)
StripRight(t) ==
  IF t # <<>> /\ IsSpace(t[Len(t)]) THEN StripRight(SubSeq(t, 1, Len(t) - 1)) ELSE t

Strip(t) == StripRight(StripLeft(t))

Min(a, b) == IF a <= b THEN a ELSE b

MinOf(S) == CHOOSE x \in S : \A y \in S : x <= y

----------------------------------------------------------------------------
(* Datetimes *)

None == [ok |-> FALSE, civil |-> 0, aware |-> FALSE, off |-> 0]

DT(c, o) == [ok |-> TRUE, civil |-> c, aware |-> TRUE, off |-> o]

Naive(c) == [ok |-> TRUE, civil |-> c, aware |-> FALSE, off |-> 0]

\* the instant of an aware datetime, in seconds of UTC
Instant(dt) == dt.civil - dt.off

\* datetime.now(tz=LOCAL_TZ) when the clock reads `clock` (UTC)
now_local(clock) == DT(clock + LOCAL_TZ, LOCAL_TZ)

\* dt + timedelta(seconds=n)
PlusSeconds(dt, n) == [dt EXCEPT !.civil = @ + n]

\* dt + timedelta(minutes=n)
PlusMinutes(dt, n) == PlusSeconds(dt, n * SecondsPerMinute)

\* dt + timedelta(hours=n)
PlusHours(dt, n) == PlusSeconds(dt, n * SecondsPerHour)

\* dt + timedelta(days=n)
PlusDays(dt, n) == PlusSeconds(dt, n * SecondsPerDay)

\* the two branches of lines 82-85 and 115-118
ToLocal(dt) ==
  IF ~dt.aware THEN DT(dt.civil, LOCAL_TZ)
  ELSE DT(Instant(dt) + LOCAL_TZ, LOCAL_TZ)

\* a <= b on aware datetimes
DtLe(a, b) == Instant(a) <= Instant(b)

\* dt.astimezone(timezone.utc)
AsUtc(dt) == DT(Instant(dt), 0)

\* rfc2822(dt): a naive datetime is read as UTC; the reading is printed with
\* its offset, to the second
rfc2822(dt) == IF ~dt.aware THEN DT(dt.civil, 0) ELSE dt

----------------------------------------------------------------------------
(* Attendee extractor *)

NoCount == [ok |-> FALSE, v |-> 0]

Count(n) == [ok |-> TRUE, v |-> n]

AttendeeWords == {"attendees", "going", "rsvps", "people", "attending"}

MaxCountDigits == 6

\* \b(\d{1,6})\s*(attendees|going|rsvps|people|attending)\b matches at i
CountBeforeWordAt(t, i) ==
  /\ i \in 1..Len(t)
  /\ t[i].k = "n"
  /\ t[i].d <= MaxCountDigits
  /\ BoundaryBefore(t, i)
  /\ LET j == SkipSpace(t, i + 1)
     IN IsWordAt(t, j, AttendeeWords) /\ BoundaryAfter(t, j)

\* index of the number of \battendees?\s*[:\-]?\s*(\d{1,6})\b matching at i, or 0
CountAfterWordAt(t, i) ==
  IF IsWordAt(t, i, {"attendee", "attendees"}) /\ BoundaryBefore(t, i)
  THEN LET j == SkipSpace(t, i + 1)
           k == IF j \in 1..Len(t) /\ t[j].k = "p" /\ t[j].s \in {":", "-"}
                THEN j + 1 ELSE j
           n == SkipSpace(t, k)
       IN IF /\ n \in 1..Len(t)
             /\ t[n].k = "n"
             /\ t[n].d <= MaxCountDigits
             /\ BoundaryAfter(t, n)
          THEN n ELSE 0
  ELSE 0

\* the two patterns tried in the other order
extract_attendees_from_text_wordFirst(text) ==
  IF text = <<>> THEN NoCount
  ELSE LET t == NormalizeSpace(Strip(text))
           m == {i \in 1..Len(t) : CountBeforeWordAt(t, i)}
           m2 == {i \in 1..Len(t) : CountAfterWordAt(t, i) # 0}
       IN IF m2 # {} THEN Count(t[CountAfterWordAt(t, MinOf(m2))].v)
          ELSE IF m # {} THEN Count(t[MinOf(m)].v)
          ELSE NoCount

extract_attendees_from_text(text) ==
  IF text = <<>> THEN NoCount
  ELSE LET t == NormalizeSpace(Strip(text))
           m == {i \in 1..Len(t) : CountBeforeWordAt(t, i)}
           m2 == {i \in 1..Len(t) : CountAfterWordAt(t, i) # 0}
       IN IF m # {} THEN Count(t[MinOf(m)].v)
          ELSE IF m2 # {} THEN Count(t[CountAfterWordAt(t, MinOf(m2))].v)
          ELSE NoCount

----------------------------------------------------------------------------
(* Time resolver *)

\* dateutil's parser.parse on the texts of the model: an ISO timestamp, or a
\* calendar date and/or a clock reading (the date defaulting to the system's
\* today); any other word, number or punctuation makes it raise.
dateparser_parse(t, defaultDay) ==
  IF Len(t) = 1 /\ t[1].k = "i"
  THEN [ok |-> TRUE, civil |-> t[1].v, aware |-> t[1].s = "aware", off |-> t[1].d]
  ELSE LET dates == {i \in 1..Len(t) : t[i].k = "d"}
           clocks == {i \in 1..Len(t) : t[i].k = "c"}
       IN IF /\ \A i \in 1..Len(t) : t[i].k \in {"d", "c", "s"}
             /\ Cardinality(dates) <= 1
             /\ Cardinality(clocks) <= 1
             /\ dates \cup clocks # {}
          THEN LET day == IF dates = {} THEN defaultDay
                          ELSE t[CHOOSE i \in dates : TRUE].v
                   tod == IF clocks = {} THEN 0
                          ELSE t[CHOOSE i \in clocks : TRUE].v
               IN Naive(day * SecondsPerDay + tod)
          ELSE None

MaxRelDigits == 3

RelUnits == {"minute", "minutes", "hour", "hours"}

\* index of the unit word of \bin\s+(\d{1,3})\s*(minute|minutes|hour|hours)\b
\* matching at i, or 0
RelMatchAt(t, i) ==
  IF /\ IsWordAt(t, i, {"in"})
     /\ BoundaryBefore(t, i)
     /\ i + 2 <= Len(t)
     /\ IsSpace(t[i + 1])
     /\ t[i + 2].k = "n"
     /\ t[i + 2].d <= MaxRelDigits
  THEN LET j == SkipSpace(t, i + 3)
       IN IF IsWordAt(t, j, RelUnits) /\ BoundaryAfter(t, j) THEN j ELSE 0
  ELSE 0

\* re.sub(r"\bword\b", date, t, flags=re.I)
SubstituteWord(t, word, day) ==
  [i \in 1..Len(t) |->
     IF IsWordAt(t, i, {word}) /\ BoundaryBefore(t, i) /\ BoundaryAfter(t, i)
     THEN DATE(day) ELSE t[i]]

HasWord(t, word) ==
  \E i \in 1..Len(t) :
    IsWordAt(t, i, {word}) /\ BoundaryBefore(t, i) /\ BoundaryAfter(t, i)

\* base.strftime("%Y-%m-%d")
DayOf(dt) == dt.civil \div SecondsPerDay

parse_start_dt(dt_attr, when_text, clock, sysDay) ==
  LET base == now_local(clock)
      a == dateparser_parse(dt_attr, sysDay)
  IN IF dt_attr # <<>> /\ a.ok THEN ToLocal(a)
     ELSE LET t == Strip(when_text)
          IN IF t = <<>> THEN None
             ELSE LET t_clean == NormalizeSpace(t)
                      rel == {i \in 1..Len(t_clean) : RelMatchAt(t_clean, i) # 0}
                  IN IF rel # {}
                     THEN LET i == MinOf(rel)
                              n == t_clean[i + 2].v
                              unit == Lower(t_clean[RelMatchAt(t_clean, i)].s)
                          IN IF unit \in {"hour", "hours"}
                             THEN PlusHours(base, n)
                             ELSE PlusMinutes(base, n)
                     ELSE LET sub ==
                                IF HasWord(t_clean, "today")
                                THEN SubstituteWord(t_clean, "today", DayOf(base))
                                ELSE IF HasWord(t_clean, "tomorrow")
                                THEN SubstituteWord(t_clean, "tomorrow",
                                       DayOf(PlusDays(base, 1)))
                                ELSE t_clean
                              dt == dateparser_parse(sub, sysDay)
                          IN IF dt.ok THEN ToLocal(dt) ELSE None

----------------------------------------------------------------------------
(* Window filter *)

\* "starting soon" in t: a substring, whatever surrounds it
ContainsStartingSoon(t) ==
  \E i \in 1..Len(t) :
    /\ i + 2 <= Len(t)
    /\ t[i].k = "w"
    /\ Lower(t[i].s) \in {"starting", "restarting"}
    /\ t[i + 1] = SP
    /\ t[i + 2].k = "w"
    /\ Lower(t[i + 2].s) \in {"soon", "sooner"}

\* \bin\s+\d+\s+minutes?\b
InMinutesAt(t, i) ==
  /\ IsWordAt(t, i, {"in"})
  /\ BoundaryBefore(t, i)
  /\ i + 4 <= Len(t)
  /\ IsSpace(t[i + 1])
  /\ t[i + 2].k = "n"
  /\ IsSpace(t[i + 3])
  /\ IsWordAt(t, i + 4, {"minute", "minutes"})
  /\ BoundaryAfter(t, i + 4)

\* \bin\s+1\s+hour\b
InOneHourAt(t, i) ==
  /\ IsWordAt(t, i, {"in"})
  /\ BoundaryBefore(t, i)
  /\ i + 4 <= Len(t)
  /\ IsSpace(t[i + 1])
  /\ t[i + 2].k = "n"
  /\ t[i + 2].v = 1
  /\ t[i + 2].d = 1
  /\ IsSpace(t[i + 3])
  /\ IsWordAt(t, i + 4, {"hour"})
  /\ BoundaryAfter(t, i + 4)

\* the window tested with its far end open
is_within_next_hour_openEnd(start_dt, when_text, clock) ==
  IF start_dt.ok
  THEN LET start == now_local(clock)
           end == PlusMinutes(start, WINDOW_MINUTES)
       IN DtLe(start, start_dt) /\ Instant(start_dt) < Instant(end)
  ELSE \/ ContainsStartingSoon(when_text)
       \/ \E i \in 1..Len(when_text) : InMinutesAt(when_text, i)
       \/ \E i \in 1..Len(when_text) : InOneHourAt(when_text, i)

\* the fallback taking any number of hours: \bin\s+\d+\s+hours?\b
is_within_next_hour_anyHours(start_dt, when_text, clock) ==
  IF start_dt.ok
  THEN LET start == now_local(clock)
           end == PlusMinutes(start, WINDOW_MINUTES)
       IN DtLe(start, start_dt) /\ DtLe(start_dt, end)
  ELSE \/ ContainsStartingSoon(when_text)
       \/ \E i \in 1..Len(when_text) : InMinutesAt(when_text, i)
       \/ \E i \in 1..Len(when_text) :
            /\ IsWordAt(when_text, i, {"in"})
            /\ BoundaryBefore(when_text, i)
            /\ i + 4 <= Len(when_text)
            /\ IsSpace(when_text[i + 1])
            /\ when_text[i + 2].k = "n"
            /\ IsSpace(when_text[i + 3])
            /\ IsWordAt(when_text, i + 4, {"hour", "hours"})
            /\ BoundaryAfter(when_text, i + 4)

is_within_next_hour(start_dt, when_text, clock) ==
  IF start_dt.ok
  THEN LET start == now_local(clock)
           end == PlusMinutes(start, WINDOW_MINUTES)
       IN DtLe(start, start_dt) /\ DtLe(start_dt, end)
  ELSE \/ ContainsStartingSoon(when_text)
       \/ \E i \in 1..Len(when_text) : InMinutesAt(when_text, i)
       \/ \E i \in 1..Len(when_text) : InOneHourAt(when_text, i)

----------------------------------------------------------------------------
(* Sort and cap *)

\* the sort key of line 309: start_dt, or datetime.max (after every start)
KeyLe(a, b) ==
  \/ ~b.start_dt.ok
  \/ a.start_dt.ok /\ b.start_dt.ok /\ DtLe(a.start_dt, b.start_dt)

\* x placed after every element whose key is not greater (list.sort is stable)
RECURSIVE Insert(_, _)
Insert(sorted, x) ==
  IF sorted = <<>> THEN <<x>>
  ELSE IF KeyLe(sorted[Len(sorted)], x) THEN Append(sorted, x)
  ELSE Append(Insert(SubSeq(sorted, 1, Len(sorted) - 1), x), sorted[Len(sorted)])

RECURSIVE SortItems(_)
SortItems(items) ==
  IF items = <<>> THEN <<>>
  ELSE Insert(SortItems(SubSeq(items, 1, Len(items) - 1)), items[Len(items)])

\* items[:MAX_ITEMS]
Cap(items) == SubSeq(items, 1, Min(Len(items), MAX_ITEMS))

\* the cap taken before the sort
SortAndCap_capFirst(items) == SortItems(Cap(items))

SortAndCap(items) == Cap(SortItems(items))

----------------------------------------------------------------------------
(* Card extractor: the in-page script of scrape_meetup_cards *)

Origin == "https://www.meetup.com"

\* new URL(href, location.origin).toString(): surrounding whitespace is
\* dropped, a relative reference is resolved against the origin; the href of
\* an address that cannot be parsed (here: an unclosed "[" host) comes back
\* as it is
absUrl(href) ==
  LET h == Strip(href)
  IN IF h = <<>> THEN <<W(Origin), P("/")>>
     ELSE IF h[1] = W("http://[") THEN href
     ELSE IF h[1] = W(Origin) THEN h
     ELSE <<W(Origin)>> \o h

\* the card's h3 text, else the aria-label, else the link text
TitleOf(a) ==
  Strip(IF a.card /\ a.h3 # <<>> THEN a.h3
        ELSE IF a.aria # <<>> THEN a.aria
        ELSE a.text)

\* the length of a text in characters
RECURSIVE TextLen(_)
TextLen(t) ==
  IF t = <<>> THEN 0
  ELSE TextLen(Tail(t)) +
       (CASE Head(t).k = "n" -> Head(t).d
          [] OTHER -> Len(Head(t).s))

RawCard(a) ==
  [title |-> TitleOf(a),
   url |-> absUrl(a.href),
   whenText |-> IF a.card THEN Strip(a.timeText) ELSE <<>>,
   dtAttr |-> IF a.card THEN Strip(a.timeAttr) ELSE <<>>,
   cardText |-> IF a.card /\ a.cardText # <<>> THEN a.cardText ELSE a.text]

\* the loop over the anchors, from anchor i on, with the URLs seen so far
RECURSIVE ExtractFrom(_, _, _)
ExtractFrom(anchors, i, seen) ==
  IF i > Len(anchors) THEN <<>>
  ELSE LET a == anchors[i]
           url == absUrl(a.href)
       IN IF url = <<>> \/ url \in seen
          THEN ExtractFrom(anchors, i + 1, seen)
          ELSE IF TextLen(TitleOf(a)) < MinTitleLen
          THEN ExtractFrom(anchors, i + 1, seen \cup {url})
          ELSE <<RawCard(a)>> \o ExtractFrom(anchors, i + 1, seen \cup {url})

ExtractCards(anchors) == ExtractFrom(anchors, 1, {})

----------------------------------------------------------------------------
(* main: one card's conversion, and the feed *)

\* the body of the loop of main for raw card r: the clock reads `clock` when
\* the start is resolved and `clock + d` when the window is tested
ConvertCard(r, clock, d, sysDay) ==
  LET when_text == Strip(r.whenText)
      start_dt == parse_start_dt(Strip(r.dtAttr), when_text, clock, sysDay)
  IN [keep |-> is_within_next_hour(start_dt, when_text, clock + d),
      item |-> [title |-> Strip(r.title),
                url |-> Strip(r.url),
                when_text |-> when_text,
                attendees |-> extract_attendees_from_text(r.cardText),
                start_dt |-> start_dt,
                start_dt_utc |-> IF start_dt.ok THEN rfc2822(AsUtc(start_dt))
                                 ELSE None]]

\* html.escape(s.strip())
esc(t) ==
  LET u == Strip(t)
  IN [i \in 1..Len(u) |->
        CASE u[i] = P("&") -> P("&amp;")
          [] u[i] = P("<") -> P("&lt;")
          [] u[i] = P(">") -> P("&gt;")
          [] OTHER -> u[i]]

RssItem(it) ==
  [title |-> esc(it.title),
   link |-> esc(it.url),
   guid |-> esc(it.url),
   pubDate |-> it.start_dt_utc,
   description |-> [time |-> esc(it.when_text),
                    attendees |-> it.attendees,
                    href |-> esc(it.url)]]

\* the file opened for appending: what it held stays
WrittenFile_append(old, rss) == [rss EXCEPT !.items = old.items \o @]

\* open(OUT_FILE, "w") and f.write(rss): the file holds rss and nothing else
WrittenFile(old, rss) == rss

build_rss(items, clock) ==
  [exists |-> TRUE,
   lastBuildDate |-> rfc2822(DT(clock, 0)),
   items |-> [i \in 1..Len(items) |-> RssItem(items[i])]]

----------------------------------------------------------------------------
(* The scroll-and-poll loop *)

\* lines 211-215: the counter and the recorded height after a poll of h
\* the counter never reset
NextStable_noReset(h, prev, st) == IF h = prev THEN st + 1 ELSE st

NextStable(h, prev, st) == IF h = prev THEN st + 1 ELSE 0

NextPrevHeight(h, prev) == IF h = prev THEN prev ELSE h

\* the loop ends after this poll: the break of line 216, or range(18) is used up
LoopEnds(st, it) == st >= StableLimit \/ it >= ScrollRounds

----------------------------------------------------------------------------
(* Bounds and inputs *)

MaxDrift == 1

MaxHeight == 2

MaxAnchors == 2

MaxKept == 52

MaxKey == 4

\* the clock at the start: 04:30 UTC, 23:30 of the day before in the local zone
T0 == 101 * SecondsPerDay + 4 * SecondsPerHour + 30 * SecondsPerMinute

\* the clock readings 23:45 and 00:15
LateClock == 23 * SecondsPerHour + 45 * SecondsPerMinute

EarlyClock == 15 * SecondsPerMinute

Nums ==
  {N(0, 1), N(1, 1), N(2, 1), N(30, 2), N(60, 2), N(61, 2), N(999, 3),
   N(1000, 4), N(30, 4)}

RelTexts ==
  {<<W(i), SP, n>> \o g \o <<W(u)>> :
     i \in {"in", "In"}, n \in Nums, g \in {<<SP>>, <<>>, <<WS>>},
     u \in {"minute", "minutes", "hour", "hours", "Minutes"}}

OtherTexts ==
  {<<>>,
   <<W("Starting"), SP, W("Soon")>>,
   <<W("starting"), WS, W("soon")>>,
   <<W("restarting"), SP, W("sooner")>>,
   <<W("Starting"), SP, W("Soon"), SP, W("in"), SP, N(2, 1), SP, W("hours")>>,
   <<W("Next"), SP, W("week")>>,
   <<W("Today"), SP, CLOCK(LateClock)>>,
   <<W("Tomorrow"), SP, CLOCK(EarlyClock)>>,
   <<W("Today"), SP, W("Tomorrow"), SP, CLOCK(EarlyClock)>>,
   <<CLOCK(LateClock)>>,
   <<W("Starts"), SP, W("in"), SP, N(30, 2), SP, W("minutes")>>,
   <<N(5, 1), W("in"), SP, N(3, 1), SP, W("minutes")>>,
   <<W("in"), SP, N(3, 1), SP, W("minutes"), N(5, 1)>>,
   <<W("within"), SP, N(3, 1), SP, W("minutes")>>}

TimeTexts == RelTexts \cup OtherTexts

\* starts ahead of T0: now, half an hour, the end of the window, a minute past
Offsets == {0, 30 * SecondsPerMinute, 60 * SecondsPerMinute, 61 * SecondsPerMinute}

\* and a second before now, a second after, a second either side of the end
NearOffsets == {-1, 1, 60 * SecondsPerMinute - 1, 60 * SecondsPerMinute + 1}

\* the datetime attributes: none, one that does not parse, ISO timestamps
\* with the local offset, as UTC, and without a zone
DtAttrs ==
  {<<>>, <<W("soon")>>}
  \cup {<<ISO(T0 + LOCAL_TZ + o, "aware", LOCAL_TZ)>> : o \in Offsets}
  \cup {<<ISO(T0 + o, "aware", 0)>> : o \in Offsets}
  \cup {<<ISO(T0 + LOCAL_TZ + o, "naive", 0)>> : o \in Offsets}

Starts ==
  {None}
  \cup {DT(T0 + LOCAL_TZ + o, LOCAL_TZ) : o \in Offsets \cup NearOffsets}
  \cup {DT(T0 + o, 0) : o \in Offsets \cup NearOffsets}

CountPieces ==
  {<<>>,
   <<N(42, 2), SP, W("attendees")>>,
   <<N(42, 2), W("attendees")>>,
   <<W("Attendees"), P(":"), SP, N(7, 1)>>,
   <<W("Attendees"), SP, N(12, 2)>>,
   <<W("attendee"), P("-"), N(5, 1)>>,
   <<N(12, 2), WS, W("Going")>>,
   <<N(3, 1), SP, W("RSVPs")>>,
   <<N(0, 1), SP, W("people")>>,
   <<N(1234567, 7), SP, W("attendees")>>,
   <<W("x"), N(42, 2), SP, W("attendees")>>,
   <<N(9, 1), SP, W("attendee")>>,
   <<W("Attendees"), SP, N(1234567, 7)>>,
   <<W("Python"), SP, W("Night")>>,
   <<N(8, 1), SP, W("goings")>>}

Joints == {<<SP>>, <<WS>>, <<SP, P("|"), SP>>}

CardTexts ==
  CountPieces \cup {a \o j \o b : a \in CountPieces \ {<<>>},
                                  j \in Joints, b \in CountPieces \ {<<>>}}

Anchor(href, h3, aria, text, timeText, timeAttr, cardText) ==
  [href |-> href, card |-> TRUE, h3 |-> h3, aria |-> aria, text |-> text,
   timeText |-> timeText, timeAttr |-> timeAttr, cardText |-> cardText]

\* a link outside any article, li or div
BareAnchor(href, aria, text) ==
  [href |-> href, card |-> FALSE, h3 |-> <<>>, aria |-> aria, text |-> text,
   timeText |-> <<>>, timeAttr |-> <<>>, cardText |-> <<>>]

PythonNight == <<W("Python"), SP, W("Night")>>

\* the anchors a page may hold: title links, an image link without a title,
\* a two-letter title, addresses that do not parse, a link outside any card
Anchors ==
  {Anchor(<<W("/events/1")>>, PythonNight, <<>>, PythonNight,
          <<W("in"), SP, N(30, 2), SP, W("minutes")>>, <<>>,
          PythonNight \o <<WS, N(42, 2), SP, W("attendees")>>),
   Anchor(<<W(Origin), W("/events/1")>>, <<>>, <<>>, <<>>,
          <<>>, <<>>, <<>>),
   Anchor(<<SP, W("/events/1")>>, <<>>, <<W("Go")>>, <<>>,
          <<W("Starting"), SP, W("Soon")>>, <<>>, <<W("Go")>>),
   Anchor(<<W("/events/2")>>, <<W("R"), P("&"), W("D"), SP, W("Meetup")>>,
          <<>>, <<>>, <<W("Today"), SP, CLOCK(LateClock)>>,
          <<ISO(T0 + 60 * SecondsPerMinute, "aware", 0)>>,
          <<W("Attendees"), P(":"), SP, N(7, 1)>>),
   Anchor(<<W("http://["), W("/events/3")>>, <<>>, <<>>, <<W("Data"), SP, W("Talk")>>,
          <<W("Starting"), SP, W("Soon")>>, <<>>, <<W("Data"), SP, W("Talk")>>),
   Anchor(<<W("http://["), W("/events/3"), SP>>, <<W("Data"), SP, W("Talk")>>,
          <<>>, <<>>, <<WS, W("in"), SP, N(30, 2), SP, W("minutes")>>, <<>>,
          <<>>),
   Anchor(<<W("/events/4")>>, <<W("Book"), SP, W("Club")>>, <<>>, <<>>,
          <<W("Next"), SP, W("week")>>, <<W("soon")>>, <<>>),
   BareAnchor(<<W("/events/5")>>, <<>>, <<W("Chess"), SP, W("Hour")>>)}

Pages == UNION {[1..n -> Anchors] : n \in 0..MaxAnchors}

\* public/feed.xml before the run: absent, or the feed of an earlier run
OldFeed ==
  [exists |-> TRUE,
   lastBuildDate |-> DT(T0 - SecondsPerHour, 0),
   items |-> <<[title |-> <<W("Old"), SP, W("Event")>>,
                link |-> <<W(Origin), W("/events/9")>>,
                guid |-> <<W(Origin), W("/events/9")>>,
                pubDate |-> DT(T0 - SecondsPerHour, 0),
                description |-> [time |-> <<>>, attendees |-> NoCount,
                                 href |-> <<W(Origin), W("/events/9")>>]]>>]

\* the i-th of a list of kept events whose starts follow the pattern (a, b)
KeptItem(i, a, b) ==
  LET key == (a * i + b) % (MaxKey + 1)
  IN [title |-> <<W("Event")>>,
      url |-> <<W(Origin), W("/events/"), N(i, 2)>>,
      when_text |-> <<>>,
      attendees |-> NoCount,
      start_dt |-> IF key = 0 THEN None ELSE DT(T0 + LOCAL_TZ + key, LOCAL_TZ),
      start_dt_utc |-> IF key = 0 THEN None ELSE DT(T0 + key, 0)]

KeptList(n, a, b) == [i \in 1..n |-> KeptItem(i, a, b)]

----------------------------------------------------------------------------
(* State *)

VARIABLES
  pc,           \* where the run (or the call under check) stands
  clock,        \* the wall clock, in seconds of UTC
  sysOff,       \* the zone offset of the machine the script runs on
  inp,          \* the arguments of the call under check
  out,          \* its result
  iter,         \* iterations of the scroll loop done
  prev_height,  \* scrape_meetup_cards: prev_height
  stable,       \* scrape_meetup_cards: stable
  lastPoll,     \* the height the last poll returned (0 before the first)
  runLen,       \* how many polls in a row returned it (the start counts as one)
  page,         \* the anchors the in-page script found
  raw,          \* main: raw
  idx,          \* main: the card the loop is at
  items,        \* main: items
  file,         \* public/feed.xml
  prior,        \* public/feed.xml as the run found it
  writes        \* writes to public/feed.xml in this run

fnVars == <<inp, out>>

scrollVars == <<iter, prev_height, stable, lastPoll, runLen>>

mainVars == <<page, raw, idx, items>>

fileVars == <<file, prior, writes>>

vars == <<pc, clock, sysOff, fnVars, scrollVars, mainVars, fileVars>>

NoFile == [exists |-> FALSE, lastBuildDate |-> None, items |-> <<>>]

PriorFiles == {NoFile, OldFeed}

NoArgs == [none |-> TRUE]

\* dateutil's default date: the machine's today
SysDay == (clock + sysOff) \div SecondsPerDay

RunIdle ==
  /\ iter = 0 /\ prev_height = 0 /\ stable = 0 /\ lastPoll = 0 /\ runLen = 1
  /\ page = <<>> /\ raw = <<>> /\ idx = 0 /\ items = <<>>
  /\ file = NoFile /\ prior = NoFile /\ writes = 0

runVars == <<scrollVars, mainVars, fileVars>>

----------------------------------------------------------------------------
(* is_within_next_hour, called on any start and text *)

InitFilter ==
  /\ pc = "ready"
  /\ clock = T0
  /\ sysOff = 0
  /\ inp \in [start_dt : Starts, when_text : TimeTexts]
  /\ out = [keep |-> FALSE]
  /\ RunIdle

CallFilter ==
  /\ pc = "ready"
  /\ pc' = "done"
  /\ out' = [keep |-> is_within_next_hour(inp.start_dt, inp.when_text, clock)]
  /\ UNCHANGED <<clock, sysOff, inp, runVars>>

NextFilter == CallFilter

SpecFilter == InitFilter /\ [][NextFilter]_vars

----------------------------------------------------------------------------
(* extract_attendees_from_text, called on any card text *)

InitAttendees ==
  /\ pc = "ready"
  /\ clock = T0
  /\ sysOff = 0
  /\ inp \in [text : CardTexts]
  /\ out = NoCount
  /\ RunIdle

CallAttendees ==
  /\ pc = "ready"
  /\ pc' = "done"
  /\ out' = extract_attendees_from_text(inp.text)
  /\ UNCHANGED <<clock, sysOff, inp, runVars>>

NextAttendees == CallAttendees

SpecAttendees == InitAttendees /\ [][NextAttendees]_vars

----------------------------------------------------------------------------
(* One card through the loop body of main: resolve, then test the window *)

CardOf(dt_attr, when_text) ==
  [title |-> <<W("Event")>>, url |-> <<W(Origin), W("/events/1")>>,
   whenText |-> when_text, dtAttr |-> dt_attr, cardText |-> <<>>]

InitCard ==
  /\ pc = "ready"
  /\ clock = T0
  /\ sysOff \in {0, LOCAL_TZ}
  /\ inp \in [dt_attr : DtAttrs, when_text : TimeTexts]
  /\ out = [keep |-> FALSE, item |-> NoArgs, base |-> 0]
  /\ RunIdle

CallConvert ==
  /\ pc = "ready"
  /\ pc' = "done"
  /\ \E d \in 0..MaxDrift :
       /\ clock' = clock + d
       /\ LET c == ConvertCard(CardOf(inp.dt_attr, inp.when_text), clock, d, SysDay)
          IN out' = [keep |-> c.keep, item |-> c.item, base |-> clock]
  /\ UNCHANGED <<sysOff, inp, runVars>>

NextCard == CallConvert

SpecCard == InitCard /\ [][NextCard]_vars

----------------------------------------------------------------------------
(* The sort and the cap of main, on any list of kept events *)

InitSort ==
  /\ pc = "ready"
  /\ clock = T0
  /\ sysOff = 0
  /\ inp \in {[kept |-> KeptList(n, a, b)] :
               n \in 0..MaxKept, a \in 0..MaxKey, b \in 0..MaxKey}
  /\ out = [feed |-> <<>>]
  /\ RunIdle

CallSort ==
  /\ pc = "ready"
  /\ pc' = "done"
  /\ out' = [feed |-> SortAndCap(inp.kept)]
  /\ UNCHANGED <<clock, sysOff, inp, runVars>>

NextSort == CallSort

SpecSort == InitSort /\ [][NextSort]_vars

----------------------------------------------------------------------------
(* One run of the script *)

Init ==
  /\ pc = "start"
  /\ clock = T0
  /\ sysOff \in {0, LOCAL_TZ}
  /\ inp = NoArgs
  /\ out = NoArgs
  /\ iter = 0 /\ prev_height = 0 /\ stable = 0 /\ lastPoll = 0 /\ runLen = 1
  /\ page = <<>> /\ raw = <<>> /\ idx = 0 /\ items = <<>>
  /\ file \in PriorFiles
  /\ prior = file
  /\ writes = 0

\* page.goto returns: the locals of the scroll loop are set
Goto ==
  /\ pc = "start"
  /\ pc' = "scroll"
  /\ iter' = 0 /\ prev_height' = 0 /\ stable' = 0
  /\ lastPoll' = 0 /\ runLen' = 1
  /\ UNCHANGED <<clock, sysOff, fnVars, mainVars, fileVars>>

\* the page load, a wait or an evaluate raises: the exception leaves
\* scrape_meetup_cards and main, and the process ends
ScrapeFails ==
  /\ pc \in {"start", "scroll", "evaluate"}
  /\ pc' = "failed"
  /\ UNCHANGED <<clock, sysOff, fnVars, scrollVars, mainVars, fileVars>>

\* one iteration of the scroll loop: wheel, wait, poll the height
ScrollPoll ==
  /\ pc = "scroll"
  /\ \E h \in 0..MaxHeight :
       /\ stable' = NextStable(h, prev_height, stable)
       /\ prev_height' = NextPrevHeight(h, prev_height)
       /\ iter' = iter + 1
       /\ runLen' = IF h = lastPoll THEN runLen + 1 ELSE 1
       /\ lastPoll' = h
       /\ pc' = IF LoopEnds(stable', iter') THEN "evaluate" ELSE "scroll"
  /\ UNCHANGED <<clock, sysOff, fnVars, mainVars, fileVars>>

\* the in-page script runs on what the page holds; the browser is closed and
\* main starts its loop over raw
Evaluate ==
  /\ pc = "evaluate"
  /\ pc' = "main"
  /\ \E anchors \in Pages :
       /\ page' = anchors
       /\ raw' = ExtractCards(anchors)
  /\ idx' = 1
  /\ items' = <<>>
  /\ iter' = 0 /\ prev_height' = 0 /\ stable' = 0
  /\ lastPoll' = 0 /\ runLen' = 1
  /\ UNCHANGED <<clock, sysOff, fnVars, fileVars>>

\* the loop body of main for raw[idx]
Convert ==
  /\ pc = "main"
  /\ idx <= Len(raw)
  /\ \E d \in 0..MaxDrift :
       /\ clock' = clock + d
       /\ LET c == ConvertCard(raw[idx], clock, d, SysDay)
          IN items' = IF c.keep THEN Append(items, c.item) ELSE items
  /\ idx' = idx + 1
  /\ UNCHANGED <<pc, sysOff, fnVars, scrollVars, page, raw, fileVars>>

\* after the loop: sort, cap, build the feed and write it
WriteFeed ==
  /\ pc = "main"
  /\ idx > Len(raw)
  /\ pc' = "done"
  /\ items' = SortAndCap(items)
  /\ file' = WrittenFile(file, build_rss(items', clock))
  /\ writes' = writes + 1
  /\ UNCHANGED <<clock, sysOff, fnVars, scrollVars, page, raw, idx, prior>>

Next == Goto \/ ScrapeFails \/ ScrollPoll \/ Evaluate \/ Convert \/ WriteFeed

Spec == Init /\ [][Next]_vars

----------------------------------------------------------------------------
(* Claims *)

\* C1: with a resolved start, is_within_next_hour answers true exactly when
\* now <= start <= now + 60 minutes, both ends included, whatever the text says.
C1_WindowClosedInterval ==
  (pc = "done" /\ inp.start_dt.ok) =>
    (out.keep <=> /\ clock <= Instant(inp.start_dt)
                  /\ Instant(inp.start_dt) <= clock + 60 * 60)

\* a start exactly 60 minutes ahead has been tested and is included
C1_BoundaryIncluded ==
  /\ pc = "done"
  /\ inp.start_dt.ok
  /\ Instant(inp.start_dt) = clock + 60 * 60
  /\ out.keep

\* the phrases of the fallback, read off the text: "starting soon" in any
\* case, "in <digits> minute(s)", "in 1 hour"
C3_Phrase(t) ==
  \/ \E i \in 1..(Len(t) - 2) :
       /\ t[i + 1].k = "s" /\ t[i + 1].s = " "
       /\ t[i].k = "w" /\ t[i + 2].k = "w"
       /\ \/ <<Lower(t[i].s), Lower(t[i + 2].s)>> = <<"starting", "soon">>
          \/ <<Lower(t[i].s), Lower(t[i + 2].s)>> = <<"restarting", "soon">>
          \/ <<Lower(t[i].s), Lower(t[i + 2].s)>> = <<"starting", "sooner">>
          \/ <<Lower(t[i].s), Lower(t[i + 2].s)>> = <<"restarting", "sooner">>
  \/ \E i \in 1..(Len(t) - 4) :
       /\ t[i].k = "w" /\ Lower(t[i].s) = "in"
       /\ i > 1 => t[i - 1].k \in {"s", "p"}
       /\ t[i + 1].k = "s" /\ t[i + 2].k = "n" /\ t[i + 3].k = "s"
       /\ t[i + 4].k = "w"
       /\ i + 4 < Len(t) => t[i + 5].k \in {"s", "p"}
       /\ \/ Lower(t[i + 4].s) \in {"minute", "minutes"}
          \/ Lower(t[i + 4].s) = "hour" /\ t[i + 2].v = 1 /\ t[i + 2].d = 1

\* C3: without a resolved start, is_within_next_hour answers true exactly when
\* the text contains "starting soon" (any case), "in <digits> minute(s)" or
\* "in 1 hour"; every other text is excluded.
C3_FallbackPhrases ==
  (pc = "done" /\ ~inp.start_dt.ok) => (out.keep <=> C3_Phrase(inp.when_text))

\* "in 2 hours" without a resolved start has been tested and is excluded
C3_TwoHoursExcluded ==
  /\ pc = "done"
  /\ ~inp.start_dt.ok
  /\ inp.when_text = <<W("in"), SP, N(2, 1), SP, W("hours")>>
  /\ ~out.keep

\* positions of "<digits> (attendees|going|rsvps|people|attending)" in a text
\* whose whitespace runs count as one space
C7_NumberThenWord(t) ==
  {i \in 1..Len(t) :
     /\ t[i].k = "n" /\ t[i].d <= 6
     /\ i > 1 => t[i - 1].k \in {"s", "p"}
     /\ \E j \in {i + 1, i + 2} :
          /\ j <= Len(t)
          /\ j = i + 2 => t[i + 1].k = "s"
          /\ t[j].k = "w"
          /\ Lower(t[j].s) \in {"attendees", "going", "rsvps", "people", "attending"}
          /\ j < Len(t) => t[j + 1].k \in {"s", "p"}}

\* the numbers of "attendees[:-]? <digits>", each with the position of its word
C7_WordThenNumber(t) ==
  {<<i, j>> \in (1..Len(t)) \X (1..Len(t)) :
     /\ t[i].k = "w" /\ Lower(t[i].s) \in {"attendee", "attendees"}
     /\ i > 1 => t[i - 1].k \in {"s", "p"}
     /\ j > i
     /\ t[j].k = "n" /\ t[j].d <= 6
     /\ j < Len(t) => t[j + 1].k \in {"s", "p"}
     /\ \/ j = i + 1
        \/ j = i + 2 /\ (t[i + 1].k = "s" \/ t[i + 1].s \in {":", "-"})
        \/ j = i + 3 /\ t[i + 1].k = "s" /\ t[i + 2].s \in {":", "-"}
        \/ j = i + 3 /\ t[i + 1].s \in {":", "-"} /\ t[i + 2].k = "s"
        \/ /\ j = i + 4 /\ t[i + 1].k = "s" /\ t[i + 2].s \in {":", "-"}
           /\ t[i + 3].k = "s"}

C4_Events(list) == {list[i] : i \in 1..Len(list)}

\* event x does not start after event y; an unresolved start comes last
C4_NotAfter(x, y) ==
  \/ ~y.start_dt.ok
  \/ x.start_dt.ok /\ y.start_dt.ok /\ Instant(x.start_dt) <= Instant(y.start_dt)

\* C4: the list handed to build_rss has the resolved events first, in
\* ascending start order, then the unresolved ones; it holds min(kept, 50)
\* events of the kept list, and none that was left out comes before one that
\* is in it.
C4_SortedAndCapped ==
  pc = "done" =>
    LET f == out.feed
        k == inp.kept
    IN /\ Len(f) = IF Len(k) < 50 THEN Len(k) ELSE 50
       /\ \A i \in 1..Len(f) : \A j \in 1..Len(f) :
            i < j => C4_NotAfter(f[i], f[j]) /\ f[i] # f[j]
       /\ C4_Events(f) \subseteq C4_Events(k)
       /\ \A x \in C4_Events(k) \ C4_Events(f) : \A y \in C4_Events(f) : C4_NotAfter(y, x)

\* more than 50 events were kept, resolved and unresolved, not in start
\* order: 50 are handed on
C4_MoreThanFifty ==
  /\ pc = "done"
  /\ Len(inp.kept) > 50
  /\ Len(out.feed) = 50
  /\ \E i \in 1..50 : ~inp.kept[i].start_dt.ok
  /\ \E i \in 1..50 : ~C4_NotAfter(inp.kept[i], inp.kept[i + 1])
  /\ out.feed # SubSeq(inp.kept, 1, 50)

\* C6: the feed file is written only after scrape_meetup_cards has returned;
\* a run whose scraping fails writes nothing and leaves the file as it was; a
\* run whose scraping succeeds overwrites it exactly once, with items built
\* from that run's cards only.
C6_NoPartialOutput ==
  /\ pc \in {"start", "scroll", "evaluate", "main", "failed"} =>
       writes = 0 /\ file = prior
  /\ pc = "done" =>
       /\ writes = 1
       /\ file.exists
       /\ Len(file.items) <= Len(raw)
       /\ \A i \in 1..Len(file.items) :
            \E k \in 1..Len(raw) :
              /\ file.items[i].link = esc(raw[k].url)
              /\ file.items[i].title = esc(raw[k].title)

\* a run that found an earlier feed has written its own items over it
C6_OldFeedReplaced ==
  /\ pc = "done"
  /\ prior = OldFeed
  /\ writes = 1
  /\ file.items # <<>>
  /\ \A i \in 1..Len(file.items) : file.items[i] # OldFeed.items[1]

\* C8: the scroll loop polls at most 18 times; it goes on after a poll only if
\* fewer than 18 polls are done and the poll is not the 4th in a row to return
\* the recorded height, and it stops before the 18th poll only on such a poll.
C8_ScrollLoopEnds ==
  /\ iter <= 18
  /\ pc = "scroll" => iter < 18 /\ runLen < 5
  /\ pc = "evaluate" /\ iter < 18 => runLen = 5

\* the loop has stopped early, after a change of height had reset the count
C8_EarlyExitAfterReset ==
  /\ pc = "evaluate"
  /\ iter < 18
  /\ iter > 5
  /\ lastPoll # 0

\* the text holds "in N minute(s)" or "in N hour(s)", for any N: the
\* positions of such a phrase, each with the position of its unit
C2_Relative(t) ==
  {<<i, j>> \in (1..Len(t)) \X (1..Len(t)) :
     /\ t[i].k = "w" /\ Lower(t[i].s) = "in"
     /\ i > 1 => t[i - 1].k \in {"s", "p"}
     /\ i + 2 <= Len(t)
     /\ t[i + 1].k = "s" /\ t[i + 2].k = "n"
     /\ \/ j = i + 3
        \/ j = i + 4 /\ t[i + 3].k = "s"
     /\ t[j].k = "w"
     /\ Lower(t[j].s) \in {"minute", "minutes", "hour", "hours"}
     /\ j < Len(t) => t[j + 1].k \in {"s", "p"}}

\* the text with "today", or else "tomorrow", replaced by the calendar date
C2_Dated(t, base) ==
  IF \E i \in 1..Len(t) : t[i].k = "w" /\ Lower(t[i].s) = "today"
  THEN [i \in 1..Len(t) |->
          IF t[i].k = "w" /\ Lower(t[i].s) = "today"
          THEN DATE(base.civil \div 86400) ELSE t[i]]
  ELSE [i \in 1..Len(t) |->
          IF t[i].k = "w" /\ Lower(t[i].s) = "tomorrow"
          THEN DATE((base.civil + 86400) \div 86400) ELSE t[i]]

\* what the priority order (a), (b), (c), (d) of the claim gives
C2_Resolved(dt_attr, when_text, base, sysDay) ==
  LET a == dateparser_parse(dt_attr, sysDay)
      t == NormalizeSpace(when_text)
      rel == C2_Relative(t)
  IN IF dt_attr # <<>> /\ a.ok
     THEN IF a.aware THEN DT(a.civil - a.off + LOCAL_TZ, LOCAL_TZ)
          ELSE DT(a.civil, LOCAL_TZ)
     ELSE IF rel # {}
     THEN LET p == CHOOSE p \in rel : \A q \in rel : p[1] <= q[1]
              n == t[p[1] + 2].v
          IN IF Lower(t[p[2]].s) \in {"hour", "hours"}
             THEN DT(base + LOCAL_TZ + 3600 * n, LOCAL_TZ)
             ELSE DT(base + LOCAL_TZ + 60 * n, LOCAL_TZ)
     ELSE IF when_text = <<>> THEN None
     ELSE LET g == dateparser_parse(C2_Dated(t, now_local(base)), sysDay)
          IN IF ~g.ok THEN None
             ELSE IF g.aware THEN DT(g.civil - g.off + LOCAL_TZ, LOCAL_TZ)
             ELSE DT(g.civil, LOCAL_TZ)

\* C2: parse_start_dt returns (a) the parsed attribute in the local zone when
\* the attribute parses; (b) otherwise now + N minutes or now + N hours when
\* the text holds "in N minute(s)" or "in N hour(s)"; (c) otherwise the
\* generic parse of the text with today/tomorrow replaced by the date;
\* (d) otherwise nothing.
C2_ResolverPriority ==
  pc = "done" =>
    out.item.start_dt =
      C2_Resolved(inp.dt_attr, inp.when_text, out.base,
                  (out.base + sysOff) \div 86400)

\* C9: a card with no datetime attribute whose text is "in N minutes" is kept
\* only if N <= 60.
C9_NoFarEventThroughFallback ==
  \A n \in Nums :
    ( /\ pc = "done"
      /\ inp.dt_attr = <<>>
      /\ inp.when_text = <<W("in"), SP, n, SP, W("minutes")>>
      /\ out.keep ) => n.v <= 60

\* C5: the extractor emits at most one raw card per URL, and no two items of
\* the run's feed share a URL.
C5_OneItemPerUrl ==
  /\ \A i \in 1..Len(raw) : \A j \in 1..Len(raw) :
       i # j => raw[i].url # raw[j].url
  /\ pc = "done" =>
       \A i \in 1..Len(file.items) : \A j \in 1..Len(file.items) :
         i # j => file.items[i].link # file.items[j].link

\* C10: every URL with an anchor whose title has 3 or more characters has a
\* card in the extractor's output, whatever anchors came before it.
C10_TitledUrlHasCard ==
  pc \in {"main", "done"} =>
    \A i \in 1..Len(page) :
      TextLen(TitleOf(page[i])) >= 3 =>
        \E k \in 1..Len(raw) : raw[k].url = absUrl(page[i].href)

====
